---------------------------- MODULE Spec2Model ----------------------------
(***************************************************************************)
(* A model of the sidearm hand-history parser (src/src/parse.rs).          *)
(*                                                                         *)
(* Text is modelled character by character: a string is a sequence of     *)
(* one-character strings, a regular expression is a sequence of pattern    *)
(* elements matched by leftmost-first greedy backtracking (the semantics   *)
(* of the regex crate), and the numeric conversions are the digit loops of *)
(* the standard library with their integer widths.                         *)
(***************************************************************************)
EXTENDS Integers, Sequences, FiniteSets, TLC

(***************************************************************************)
(* Characters and strings                                                  *)
(***************************************************************************)

\* White_Space characters that occur in the modelled inputs (str::trim).
Whitespace == {" ", "\t", "\r"}

DigitChars == <<"0", "1", "2", "3", "4", "5", "6", "7", "8", "9">>

IsDigit(c) == \E d \in 1..10 : DigitChars[d] = c

DigitVal(c) == (CHOOSE d \in 1..10 : DigitChars[d] = c) - 1

RECURSIVE TrimStart(_)
TrimStart(s) ==
    IF s # <<>> /\ s[1] \in Whitespace THEN TrimStart(Tail(s)) ELSE s

RECURSIVE TrimEnd(_)
TrimEnd(s) ==
    IF s # <<>> /\ s[Len(s)] \in Whitespace
    THEN TrimEnd(SubSeq(s, 1, Len(s) - 1))
    ELSE s

\* str::trim
Trim(s) == TrimEnd(TrimStart(s))

\* str::replace(c, ""): every occurrence of the character c is removed.
RECURSIVE Remove(_, _)
Remove(s, c) ==
    IF s = <<>> THEN <<>>
    ELSE IF s[1] = c THEN Remove(Tail(s), c)
    ELSE <<s[1]>> \o Remove(Tail(s), c)

\* str::find(c): the 1-based index of the first c in s, 0 for None.
Find(s, c) ==
    IF \E i \in 1..Len(s) : s[i] = c
    THEN CHOOSE i \in 1..Len(s) : s[i] = c /\ \A j \in 1..(i - 1) : s[j] # c
    ELSE 0

(***************************************************************************)
(* Result values.  An Err that reaches .unwrap() is a panic of the run.    *)
(***************************************************************************)

Ok(v) == [ok |-> TRUE, val |-> v, err |-> "none"]

Err(e) == [ok |-> FALSE, val |-> <<>>, err |-> e]

(***************************************************************************)
(* Unsigned integers.  TLC's integers are 32-bit signed, so a u32 is kept  *)
(* as two 16-bit limbs <<hi, lo>> with value hi * 2^16 + lo; a u8 is the   *)
(* low limb of such a pair.                                                *)
(***************************************************************************)

Limb == 65536

UInt(n) == <<n \div Limb, n % Limb>>

\* acc * 10 + d on limb pairs, before the width check
MulAdd10(acc, d) ==
    LET lo == acc[2] * 10 + d
    IN  <<acc[1] * 10 + (lo \div Limb), lo % Limb>>

\* whether the limb pair fits an unsigned integer of the given width
FitsIn(v, bits) ==
    IF bits > 16 THEN v[1] < 2 ^ (bits - 16)
    ELSE v[1] = 0 /\ v[2] < 2 ^ bits

\* The digit loop of <uN as FromStr>::from_str: each character must be a
\* decimal digit (InvalidDigit), and acc * 10 + digit must fit the width
\* (checked_mul / checked_add: PosOverflow).
RECURSIVE ParseDigits(_, _, _)
ParseDigits(s, acc, bits) ==
    IF s = <<>> THEN Ok(acc)
    ELSE IF ~IsDigit(s[1]) THEN Err("InvalidDigit")
    ELSE LET n == MulAdd10(acc, DigitVal(s[1]))
         IN  IF FitsIn(n, bits) THEN ParseDigits(Tail(s), n, bits)
             ELSE Err("PosOverflow")

\* str::parse::<u32>() (bits = 32) and str::parse::<u8>() (bits = 8): an
\* empty string is Empty, a lone sign is InvalidDigit, one leading "+" is
\* accepted, a leading "-" is an invalid digit of an unsigned type.
ParseUInt(s, bits) ==
    IF s = <<>> THEN Err("Empty")
    ELSE IF s = <<"+">> \/ s = <<"-">> THEN Err("InvalidDigit")
    ELSE IF s[1] = "+" THEN ParseDigits(Tail(s), UInt(0), bits)
    ELSE ParseDigits(s, UInt(0), bits)

(***************************************************************************)
(* Amount                                                                  *)
(***************************************************************************)

Amount_default == [integer |-> UInt(0), fraction |-> 0]

\* Amount::from_str.  The two .unwrap() calls inside it panic, so an Err
\* here is a panic, never a returned error.
Amount_from_str(input) ==
    LET s == Remove(Remove(Trim(input), "$"), ",")
        decimal_index == Find(s, ".")
    IN  IF decimal_index = 0
        THEN LET integer == ParseUInt(s, 32)
             IN  IF integer.ok
                 THEN Ok([integer |-> integer.val, fraction |-> 0])
                 ELSE Err(integer.err)
        ELSE LET integer == ParseUInt(SubSeq(s, 1, decimal_index - 1), 32)
                 fraction == ParseUInt(SubSeq(s, decimal_index + 1, Len(s)), 8)
             IN  IF ~integer.ok THEN Err(integer.err)
                 ELSE IF ~fraction.ok THEN Err(fraction.err)
                 ELSE Ok([integer |-> integer.val, fraction |-> fraction.val[2]])

(***************************************************************************)
(* Game                                                                    *)
(***************************************************************************)

HoldemNoLimit ==
    <<"H","o","l","d","e","m"," "," ","N","o"," ","L","i","m","i","t">>

HoldemHeadsUpNoLimit ==
    <<"H","o","l","d","e","m"," ","(","1"," ","o","n"," ","1",")"," "," ",
      "N","o"," ","L","i","m","i","t">>

NotYetCreated ==
    <<"N","o","t"," ","Y","e","t"," ","C","r","e","a","t","e","d">>

\* Game::from
Game_from(name) ==
    IF name = HoldemNoLimit THEN [tag |-> "NoLimitHoldem", label |-> <<>>]
    ELSE IF name = HoldemHeadsUpNoLimit
    THEN [tag |-> "NoLimitHoldemHeadsUp", label |-> <<>>]
    ELSE [tag |-> "Unknown", label |-> name]

(***************************************************************************)
(* Cards                                                                   *)
(***************************************************************************)

\* Suit::from_str
Suit_from_str(input) ==
    LET s == Trim(input)
    IN  IF s = <<"c">> THEN Ok("Club")
        ELSE IF s = <<"d">> THEN Ok("Diamond")
        ELSE IF s = <<"h">> THEN Ok("Heart")
        ELSE IF s = <<"s">> THEN Ok("Spade")
        ELSE Err("CardParseError")

\* Rank::from_str
Rank_from_str(input) ==
    LET s == Trim(input)
    IN  IF s = <<"A">> THEN Ok("Ace")
        ELSE IF s = <<"K">> THEN Ok("King")
        ELSE IF s = <<"Q">> THEN Ok("Queen")
        ELSE IF s = <<"J">> THEN Ok("Jack")
        ELSE IF s = <<"1", "0">> THEN Ok("Ten")
        ELSE IF s = <<"9">> THEN Ok("Nine")
        ELSE IF s = <<"8">> THEN Ok("Eight")
        ELSE IF s = <<"7">> THEN Ok("Seven")
        ELSE IF s = <<"6">> THEN Ok("Six")
        ELSE IF s = <<"5">> THEN Ok("Five")
        ELSE IF s = <<"4">> THEN Ok("Four")
        ELSE IF s = <<"3">> THEN Ok("Three")
        ELSE IF s = <<"2">> THEN Ok("Two")
        ELSE Err("CardParseError")

\* Card::from_str.  On an empty (trimmed) token s.len() - 1 underflows and
\* the slice panics; every other failure is a CardParseError that the
\* caller unwraps.  Either way the run panics.
Card_from_str(input) ==
    LET s == Trim(input)
    IN  IF s = <<>> THEN Err("SliceIndex")
        ELSE LET suit == Suit_from_str(<<s[Len(s)]>>)
                 rank == Rank_from_str(SubSeq(s, 1, Len(s) - 1))
             IN  IF ~suit.ok THEN Err(suit.err)
                 ELSE IF ~rank.ok THEN Err(rank.err)
                 ELSE Ok([rank |-> rank.val, suit |-> suit.val])

(***************************************************************************)
(* Regular expressions.  A pattern is a sequence of elements: a literal    *)
(* string, one character out of a set, or a greedy repetition of a         *)
(* character class ("any" for ., "digit" for \d) with a minimum count      *)
(* (1 for "+", 0 for "*" ) and the name of its capture group, "" if none. *)
(* Each repetition of the program's patterns is exactly one capture group  *)
(* or an uncaptured repetition.                                           *)
(***************************************************************************)

Lit(s) == [t |-> "lit", s |-> s, cs |-> {}, cls |-> "", min |-> 0, name |-> ""]

OneOf(cs) == [t |-> "set", s |-> <<>>, cs |-> cs, cls |-> "", min |-> 0, name |-> ""]

Rep(cls, min, name) ==
    [t |-> "rep", s |-> <<>>, cs |-> {}, cls |-> cls, min |-> min, name |-> name]

\* . matches every character but \n, and a line holds no \n.
InClass(c, cls) == IF cls = "digit" THEN IsDigit(c) ELSE TRUE

\* the length of the longest run of class characters of line from index i
RECURSIVE RunLength(_, _, _)
RunLength(line, i, cls) ==
    IF i <= Len(line) /\ InClass(line[i], cls)
    THEN 1 + RunLength(line, i + 1, cls)
    ELSE 0

HasPrefixAt(line, i, s) ==
    /\ i + Len(s) - 1 <= Len(line)
    /\ \A k \in 1..Len(s) : line[i + k - 1] = s[k]

NoCaptures == [n \in {} |-> <<>>]

\* MatchAt(pat, k, line, i): elements k.. of pat matched against line from
\* index i, by backtracking with the longest repetition tried first.  The
\* result is <<>> for no match, else <<captures>>, the captures of the
\* first match found, a function from group names to the captured text.
RECURSIVE MatchAt(_, _, _, _)
RECURSIVE MatchRep(_, _, _, _, _)
MatchAt(pat, k, line, i) ==
    IF k > Len(pat) THEN <<NoCaptures>>
    ELSE LET e == pat[k]
         IN  IF e.t = "lit"
             THEN IF HasPrefixAt(line, i, e.s)
                  THEN MatchAt(pat, k + 1, line, i + Len(e.s))
                  ELSE <<>>
             ELSE IF e.t = "set"
             THEN IF i <= Len(line) /\ line[i] \in e.cs
                  THEN MatchAt(pat, k + 1, line, i + 1)
                  ELSE <<>>
             ELSE MatchRep(pat, k, line, i, RunLength(line, i, e.cls))

MatchRep(pat, k, line, i, n) ==
    IF n < pat[k].min THEN <<>>
    ELSE LET rest == MatchAt(pat, k + 1, line, i + n)
         IN  IF rest = <<>> THEN MatchRep(pat, k, line, i, n - 1)
             ELSE IF pat[k].name = "" THEN rest
             ELSE <<(pat[k].name :> SubSeq(line, i, i + n - 1)) @@ rest[1]>>

\* Regex::captures(line): the leftmost match of the unanchored pattern.
RECURSIVE SearchFrom(_, _, _)
SearchFrom(pat, line, i) ==
    IF i > Len(line) + 1 THEN <<>>
    ELSE LET m == MatchAt(pat, 1, line, i)
         IN  IF m # <<>> THEN m ELSE SearchFrom(pat, line, i + 1)

Captures(pat, line) == SearchFrom(pat, line, 1)

\* Regex::is_match(line)
IsMatch(pat, line) == Captures(pat, line) # <<>>

(***************************************************************************)
(* The patterns of parse                                                   *)
(***************************************************************************)

\* Stage #\d+: (?P<game>.+) \$(?P<stake>\d+)[ ,].*
begin_re ==
    << Lit(<<"S","t","a","g","e"," ","#">>), Rep("digit", 1, ""),
       Lit(<<":"," ">>), Rep("any", 1, "game"), Lit(<<" ","$">>),
       Rep("digit", 1, "stake"), OneOf({" ", ","}), Rep("any", 0, "") >>

\* Seat (?P<number>\d+) - (?P<player_id>.+) \(\$(?P<stack>.+) in chips\)
seat_re ==
    << Lit(<<"S","e","a","t"," ">>), Rep("digit", 1, "number"),
       Lit(<<" ","-"," ">>), Rep("any", 1, "player_id"),
       Lit(<<" ","(","$">>), Rep("any", 1, "stack"),
       Lit(<<" ","i","n"," ","c","h","i","p","s",")">>) >>

\* (?P<player_id>.+) - Bets \$(?P<amount>.+)
bet_re ==
    << Rep("any", 1, "player_id"),
       Lit(<<" ","-"," ","B","e","t","s"," ","$">>),
       Rep("any", 1, "amount") >>

\* (?P<player_id>.+) - Calls \$(?P<amount>.+)
call_re ==
    << Rep("any", 1, "player_id"),
       Lit(<<" ","-"," ","C","a","l","l","s"," ","$">>),
       Rep("any", 1, "amount") >>

\* (?P<player_id>.+) - Checks
check_re ==
    << Rep("any", 1, "player_id"),
       Lit(<<" ","-"," ","C","h","e","c","k","s">>) >>

\* (?P<player_id>.+) Collects \$(?P<amount>.+) from.+
collect_re ==
    << Rep("any", 1, "player_id"),
       Lit(<<" ","C","o","l","l","e","c","t","s"," ","$">>),
       Rep("any", 1, "amount"), Lit(<<" ","f","r","o","m">>),
       Rep("any", 1, "") >>

\* (?P<player_id>.+) - Folds
fold_re ==
    << Rep("any", 1, "player_id"),
       Lit(<<" ","-"," ","F","o","l","d","s">>) >>

\* (?P<player_id>.+) - Mucks
muck_re ==
    << Rep("any", 1, "player_id"),
       Lit(<<" ","-"," ","M","u","c","k","s">>) >>

\* (?P<player_id>.+) - Posts .+ \$(?P<amount>.+)
post_re ==
    << Rep("any", 1, "player_id"),
       Lit(<<" ","-"," ","P","o","s","t","s"," ">>), Rep("any", 1, ""),
       Lit(<<" ","$">>), Rep("any", 1, "amount") >>

\* (?P<player_id>.+) - Raises \$(?P<raise>.+) to \$(?P<total>.+)
raise_re ==
    << Rep("any", 1, "player_id"),
       Lit(<<" ","-"," ","R","a","i","s","e","s"," ","$">>),
       Rep("any", 1, "raise"), Lit(<<" ","t","o"," ","$">>),
       Rep("any", 1, "total") >>

\* (?P<player_id>.+) - Shows \[(?P<card_1>.+) (?P<card_2>.+)\]
show_re ==
    << Rep("any", 1, "player_id"),
       Lit(<<" ","-"," ","S","h","o","w","s"," ","[">>),
       Rep("any", 1, "card_1"), Lit(<<" ">>), Rep("any", 1, "card_2"),
       Lit(<<"]">>) >>

\* \*\*\* POCKET CARDS \*\*\*
preflop_re ==
    << Lit(<<"*","*","*"," ","P","O","C","K","E","T"," ",
             "C","A","R","D","S"," ","*","*","*">>) >>

\* \*\*\* FLOP \*\*\* \[(?P<card_1>.+) (?P<card_2>.+) (?P<card_3>.+)\]
flop_re ==
    << Lit(<<"*","*","*"," ","F","L","O","P"," ","*","*","*"," ","[">>),
       Rep("any", 1, "card_1"), Lit(<<" ">>), Rep("any", 1, "card_2"),
       Lit(<<" ">>), Rep("any", 1, "card_3"), Lit(<<"]">>) >>

\* \*\*\* TURN \*\*\* \[.+\] \[(?P<card>.+)\]
turn_re ==
    << Lit(<<"*","*","*"," ","T","U","R","N"," ","*","*","*"," ","[">>),
       Rep("any", 1, ""), Lit(<<"]"," ","[">>), Rep("any", 1, "card"),
       Lit(<<"]">>) >>

\* \*\*\* RIVER \*\*\* \[.+\] \[(?P<card>.+)\]
river_re ==
    << Lit(<<"*","*","*"," ","R","I","V","E","R"," ","*","*","*"," ","[">>),
       Rep("any", 1, ""), Lit(<<"]"," ","[">>), Rep("any", 1, "card"),
       Lit(<<"]">>) >>

(***************************************************************************)
(* Hands, seats and actions                                                *)
(***************************************************************************)

\* Hand::default
Hand_default ==
    [ game    |-> [tag |-> "Unknown", label |-> NotYetCreated],
      stake   |-> Amount_default,
      seats   |-> <<>>,
      actions |-> <<>> ]

\* Seat::new
Seat_new(number, player_id, stack) ==
    [number |-> number, player_id |-> player_id, stack |-> stack]

\* A value of enum Action: its variant, and the variant's player, amounts
\* and cards in declaration order (empty where the variant has none).
Action(tag, player, amounts, cards) ==
    [tag |-> tag, player |-> player, amounts |-> amounts, cards |-> cards]

(***************************************************************************)
(* The arms of the loop body of parse.  Each takes a line and yields <<>>  *)
(* when its pattern does not match (the None arm: fall through to the next *)
(* matcher), else <<effect>>: what the Some arm does before its continue.  *)
(* An effect is a header update, a seat to push, an action to push, or the *)
(* panic of an .unwrap() on a field that does not parse.                   *)
(***************************************************************************)

Effect(kind, val) == [kind |-> kind, val |-> val]

Panic(err) == <<Effect("panic", err)>>

Push(action) == <<Effect("action", action)>>

begin_arm(line) ==
    LET m == Captures(begin_re, line)
    IN  IF m = <<>> THEN <<>>
        ELSE LET game  == Game_from(m[1]["game"])
                 stake == Amount_from_str(m[1]["stake"])
             IN  IF ~stake.ok THEN Panic(stake.err)
                 ELSE <<Effect("header", [game |-> game, stake |-> stake.val])>>

seat_arm(line) ==
    LET m == Captures(seat_re, line)
    IN  IF m = <<>> THEN <<>>
        ELSE LET number == ParseUInt(m[1]["number"], 8)
                 stack  == Amount_from_str(m[1]["stack"])
             IN  IF ~number.ok THEN Panic(number.err)
                 ELSE IF ~stack.ok THEN Panic(stack.err)
                 ELSE <<Effect("seat",
                          Seat_new(number.val[2], m[1]["player_id"], stack.val))>>

\* the arms of bet_re, call_re, collect_re and post_re: a player and one amount
amount_arm(re, tag, line) ==
    LET m == Captures(re, line)
    IN  IF m = <<>> THEN <<>>
        ELSE LET amount == Amount_from_str(m[1]["amount"])
             IN  IF ~amount.ok THEN Panic(amount.err)
                 ELSE Push(Action(tag, m[1]["player_id"], <<amount.val>>, <<>>))

\* the arms of check_re, fold_re and muck_re: a player only
player_arm(re, tag, line) ==
    LET m == Captures(re, line)
    IN  IF m = <<>> THEN <<>>
        ELSE Push(Action(tag, m[1]["player_id"], <<>>, <<>>))

raise_arm(line) ==
    LET m == Captures(raise_re, line)
    IN  IF m = <<>> THEN <<>>
        ELSE LET raise == Amount_from_str(m[1]["raise"])
                 total == Amount_from_str(m[1]["total"])
             IN  IF ~raise.ok THEN Panic(raise.err)
                 ELSE IF ~total.ok THEN Panic(total.err)
                 ELSE Push(Action("Raise", m[1]["player_id"],
                                  <<raise.val, total.val>>, <<>>))

show_arm(line) ==
    LET m == Captures(show_re, line)
    IN  IF m = <<>> THEN <<>>
        ELSE LET card_1 == Card_from_str(m[1]["card_1"])
                 card_2 == Card_from_str(m[1]["card_2"])
             IN  IF ~card_1.ok THEN Panic(card_1.err)
                 ELSE IF ~card_2.ok THEN Panic(card_2.err)
                 ELSE Push(Action("Show", m[1]["player_id"], <<>>,
                                  <<card_1.val, card_2.val>>))

preflop_arm(line) ==
    IF IsMatch(preflop_re, line)
    THEN Push(Action("PreFlop", <<>>, <<>>, <<>>))
    ELSE <<>>

flop_arm(line) ==
    LET m == Captures(flop_re, line)
    IN  IF m = <<>> THEN <<>>
        ELSE LET card_1 == Card_from_str(m[1]["card_1"])
                 card_2 == Card_from_str(m[1]["card_2"])
                 card_3 == Card_from_str(m[1]["card_3"])
             IN  IF ~card_1.ok THEN Panic(card_1.err)
                 ELSE IF ~card_2.ok THEN Panic(card_2.err)
                 ELSE IF ~card_3.ok THEN Panic(card_3.err)
                 ELSE Push(Action("Flop", <<>>, <<>>,
                                  <<card_1.val, card_2.val, card_3.val>>))

\* the arms of turn_re and river_re: one card
card_arm(re, tag, line) ==
    LET m == Captures(re, line)
    IN  IF m = <<>> THEN <<>>
        ELSE LET card == Card_from_str(m[1]["card"])
             IN  IF ~card.ok THEN Panic(card.err)
                 ELSE Push(Action(tag, <<>>, <<>>, <<card.val>>))

\* The pattern and the arm of each matcher of the loop body.
Pattern(m) ==
    CASE m = "begin"   -> begin_re
      [] m = "seat"    -> seat_re
      [] m = "bet"     -> bet_re
      [] m = "call"    -> call_re
      [] m = "check"   -> check_re
      [] m = "collect" -> collect_re
      [] m = "fold"    -> fold_re
      [] m = "muck"    -> muck_re
      [] m = "post"    -> post_re
      [] m = "raise"   -> raise_re
      [] m = "show"    -> show_re
      [] m = "preflop" -> preflop_re
      [] m = "flop"    -> flop_re
      [] m = "turn"    -> turn_re
      [] m = "river"   -> river_re

Arm(m, line) ==
    CASE m = "begin"   -> begin_arm(line)
      [] m = "seat"    -> seat_arm(line)
      [] m = "bet"     -> amount_arm(bet_re, "Bet", line)
      [] m = "call"    -> amount_arm(call_re, "Call", line)
      [] m = "check"   -> player_arm(check_re, "Check", line)
      [] m = "collect" -> amount_arm(collect_re, "Collect", line)
      [] m = "fold"    -> player_arm(fold_re, "Fold", line)
      [] m = "muck"    -> player_arm(muck_re, "Muck", line)
      [] m = "post"    -> amount_arm(post_re, "Post", line)
      [] m = "raise"   -> raise_arm(line)
      [] m = "show"    -> show_arm(line)
      [] m = "preflop" -> preflop_arm(line)
      [] m = "flop"    -> flop_arm(line)
      [] m = "turn"    -> card_arm(turn_re, "Turn", line)
      [] m = "river"   -> card_arm(river_re, "River", line)

\* a plausible slip: the fold matcher is tried before the check matcher
matchers_fold_first ==
    << "begin", "seat", "bet", "call", "fold", "collect", "check", "muck",
       "post", "raise", "show", "preflop", "flop", "turn", "river" >>

\* The order in which the loop body tries the matchers.
matchers ==
    << "begin", "seat", "bet", "call", "check", "collect", "fold", "muck",
       "post", "raise", "show", "preflop", "flop", "turn", "river" >>

\* The matchers of order from the k-th on, tried in turn.  or_continue is
\* the match on the outcome e of the k-th arm: Some(..) ends the pass with
\* that arm's effect, None falls through to the next matcher; when every
\* arm has fallen through the line has no effect of its own ("none").
RECURSIVE TryFrom(_, _, _)
or_continue(e, order, k, line) ==
    IF e # <<>> THEN e[1] ELSE TryFrom(order, k + 1, line)

TryFrom(order, k, line) ==
    IF k > Len(order) THEN Effect("none", <<>>)
    ELSE or_continue(Arm(order[k], line), order, k, line)

\* What one pass of the loop body does with a line, up to the blank-line
\* test at its end: the effect of the first matching arm, or "none".
classify(line) == TryFrom(matchers, 1, line)

\* line.trim().len() == 0
IsBlank(line) == Len(Trim(line)) = 0

(***************************************************************************)
(* Input.  The lines are those of contents.split_terminator('\n'): every   *)
(* finite sequence of newline-free lines is the split of some file.  The   *)
(* model reads files over a catalogue of concrete lines.                   *)
(***************************************************************************)

Catalogue ==
      \* Stage #7: Holdem  No Limit $2 - ET
    [ hdr |->
          <<"S","t","a","g","e"," ","#","7",":"," ","H","o","l","d","e",
            "m"," "," ","N","o"," ","L","i","m","i","t"," ","$","2"," ",
            "-"," ","E","T">>,
      \* Stage #8: Holdem (1 on 1)  No Limit $10 - ET
      hdrHeadsUp |->
          <<"S","t","a","g","e"," ","#","8",":"," ","H","o","l","d","e",
            "m"," ","(","1"," ","o","n"," ","1",")"," "," ","N","o"," ",
            "L","i","m","i","t"," ","$","1","0"," ","-"," ","E","T">>,
      \* Stage #9: Omaha $1,500 - ET
      hdrComma |->
          <<"S","t","a","g","e"," ","#","9",":"," ","O","m","a","h","a",
            " ","$","1",",","5","0","0"," ","-"," ","E","T">>,
      \* Stage #3: Holdem  No Limit $0.50 - ET
      hdrFraction |->
          <<"S","t","a","g","e"," ","#","3",":"," ","H","o","l","d","e",
            "m"," "," ","N","o"," ","L","i","m","i","t"," ","$","0",".",
            "5","0"," ","-"," ","E","T">>,
      \* Stage #6: zed - Checks $1 x
      hdrCheck |->
          <<"S","t","a","g","e"," ","#","6",":"," ","z","e","d"," ","-",
            " ","C","h","e","c","k","s"," ","$","1"," ","x">>,
      \* Seat 1 - ann ($5 in chips)
      seatA |->
          <<"S","e","a","t"," ","1"," ","-"," ","a","n","n"," ","(","$",
            "5"," ","i","n"," ","c","h","i","p","s",")">>,
      \* Seat 2 - bob ($1,500.75 in chips)
      seatB |->
          <<"S","e","a","t"," ","2"," ","-"," ","b","o","b"," ","(","$",
            "1",",","5","0","0",".","7","5"," ","i","n"," ","c","h","i",
            "p","s",")">>,
      \* Seat 3 - cy ($abc in chips)
      seatBad |->
          <<"S","e","a","t"," ","3"," ","-"," ","c","y"," ","(","$","a",
            "b","c"," ","i","n"," ","c","h","i","p","s",")">>,
      \* Seat 300 - dd ($5 in chips)
      seatBig |->
          <<"S","e","a","t"," ","3","0","0"," ","-"," ","d","d"," ","(",
            "$","5"," ","i","n"," ","c","h","i","p","s",")">>,
      \* Seat 4 - eve - Bets $3 ($9 in chips)
      seatBet |->
          <<"S","e","a","t"," ","4"," ","-"," ","e","v","e"," ","-"," ",
            "B","e","t","s"," ","$","3"," ","(","$","9"," ","i","n"," ",
            "c","h","i","p","s",")">>,
      \* ann - Bets $2
      bet |->
          <<"a","n","n"," ","-"," ","B","e","t","s"," ","$","2">>,
      \* ann - Bets $1.2.3
      betBad |->
          <<"a","n","n"," ","-"," ","B","e","t","s"," ","$","1",".","2",
            ".","3">>,
      \* ann - Bets $
      betEmpty |->
          <<"a","n","n"," ","-"," ","B","e","t","s"," ","$">>,
      \* bob - Calls $2
      call |->
          <<"b","o","b"," ","-"," ","C","a","l","l","s"," ","$","2">>,
      \* ann - Checks
      check |->
          <<"a","n","n"," ","-"," ","C","h","e","c","k","s">>,
      \* ann - Checks - Folds
      checkFold |->
          <<"a","n","n"," ","-"," ","C","h","e","c","k","s"," ","-"," ",
            "F","o","l","d","s">>,
      \* ann - Folds - Checks
      foldCheck |->
          <<"a","n","n"," ","-"," ","F","o","l","d","s"," ","-"," ","C",
            "h","e","c","k","s">>,
      \* bob Collects $4.50 from main pot
      collect |->
          <<"b","o","b"," ","C","o","l","l","e","c","t","s"," ","$","4",
            ".","5","0"," ","f","r","o","m"," ","m","a","i","n"," ","p",
            "o","t">>,
      \* ann - Folds
      fold |->
          <<"a","n","n"," ","-"," ","F","o","l","d","s">>,
      \* bob - Mucks
      muck |->
          <<"b","o","b"," ","-"," ","M","u","c","k","s">>,
      \* ann - Posts small blind $1
      post |->
          <<"a","n","n"," ","-"," ","P","o","s","t","s"," ","s","m","a",
            "l","l"," ","b","l","i","n","d"," ","$","1">>,
      \* bob - Raises $2 to $4
      raise |->
          <<"b","o","b"," ","-"," ","R","a","i","s","e","s"," ","$","2",
            " ","t","o"," ","$","4">>,
      \* ann - Shows [Ah 10c]
      show |->
          <<"a","n","n"," ","-"," ","S","h","o","w","s"," ","[","A","h",
            " ","1","0","c","]">>,
      \* ann - Shows [Zx 2c]
      showBad |->
          <<"a","n","n"," ","-"," ","S","h","o","w","s"," ","[","Z","x",
            " ","2","c","]">>,
      \* *** POCKET CARDS ***
      pocket |->
          <<"*","*","*"," ","P","O","C","K","E","T"," ","C","A","R","D",
            "S"," ","*","*","*">>,
      \* *** FLOP *** [2c Kd 9s]
      flop |->
          <<"*","*","*"," ","F","L","O","P"," ","*","*","*"," ","[","2",
            "c"," ","K","d"," ","9","s","]">>,
      \* *** TURN *** [2c Kd 9s] [Qh]
      turn |->
          <<"*","*","*"," ","T","U","R","N"," ","*","*","*"," ","[","2",
            "c"," ","K","d"," ","9","s","]"," ","[","Q","h","]">>,
      \* *** RIVER *** [2c Kd 9s Qh] [7d]
      river |->
          <<"*","*","*"," ","R","I","V","E","R"," ","*","*","*"," ","[",
            "2","c"," ","K","d"," ","9","s"," ","Q","h","]"," ","[","7",
            "d","]">>,
      \* (the empty line)
      blank |->
          <<>>,
      \*  \t\r
      spaces |->
          <<" ","\t","\r">>,
      \* Total Pot($9)
      noise |->
          <<"T","o","t","a","l"," ","P","o","t","(","$","9",")">> ]

LineNames == DOMAIN Catalogue

\* The effect of each catalogue line and whether it is blank, tabulated
\* once (as an explicit set of rows, so that a step only looks a row up).
ClassifiedRows ==
    { [name   |-> n,
       effect |-> classify(Catalogue[n]),
       blank  |-> IsBlank(Catalogue[n])] : n \in LineNames }

Classified(n) == CHOOSE row \in ClassifiedRows : row.name = n

(***************************************************************************)
(* Bounds of the model: the families of input files that are read.         *)
(***************************************************************************)

\* longest file of hand blocks (headers, seats, actions, blank lines)
MaxBlockLines == 6

\* longest file of the action-order family
MaxOrderLines == 6

\* longest file over the whole catalogue
MaxAnyLines == 2

\* longest amount text drawn from the amount alphabet
MaxTextLen == 4

Families ==
    [ blocks |-> [ lines |-> {"hdr", "hdrFraction", "seatA", "bet", "check",
                               "blank"},
                   max   |-> MaxBlockLines ],
      order  |-> [ lines |-> {"seatA", "bet", "call", "flop", "check", "raise"},
                   max   |-> MaxOrderLines ],
      any    |-> [ lines |-> LineNames,
                   max   |-> MaxAnyLines ],
      restart |-> [ lines |-> {"hdr", "hdrHeadsUp", "seatA", "bet"},
                    max   |-> MaxBlockLines ] ]

\* The amount texts: every string over the amount alphabet up to the bound,
\* and some longer ones around the widths of the two numeric fields.
AmountAlphabet == {"$", ",", ".", "0", "1", "5"}

RECURSIVE StringsUpTo(_, _)
StringsUpTo(alphabet, n) ==
    IF n = 0 THEN {<<>>}
    ELSE LET shorter == StringsUpTo(alphabet, n - 1)
         IN  shorter \cup {<<c>> \o s : c \in alphabet,
                           s \in {t \in shorter : Len(t) = n - 1}}

AmountTexts ==
    StringsUpTo(AmountAlphabet, MaxTextLen)
        \cup { <<"$","1",",","2","3","4",".","5","0">>,
               <<"4","2","9","4","9","6","7","2","9","5">>,
               <<"4","2","9","4","9","6","7","2","9","6">>,
               <<"1",".","2","5","5">>, <<"1",".","2","5","6">>,
               <<" ","5"," ">>, <<"+","5">>, <<"-","5">>, <<"a","b","c">> }

(***************************************************************************)
(* State                                                                   *)
(***************************************************************************)

VARIABLES
    family,        \* the family the input file is drawn from
    consumed,      \* the lines the for loop has taken so far, by name
    current_hand,  \* let mut current_hand
    hands,         \* let mut hands; the value parse returns once it is done
    status,        \* "running", "done" (parse returned) or "panicked"
    failure,       \* what the panic reports: the error of the failed unwrap
    text,          \* the argument of a call of Amount::from_str
    parsed         \* its outcome, Pending before the call

vars == <<family, consumed, current_hand, hands, status, failure, text, parsed>>

NoFailure == [error |-> "none"]

\* the outcome of a call that has not been made yet
Pending == Err("pending")

(***************************************************************************)
(* parse                                                                   *)
(***************************************************************************)

\* a plausible slip: new seats and actions go to the front
apply_prepend(effect, hand) ==
    CASE effect.kind = "header" ->
            [hand EXCEPT !.game = effect.val.game, !.stake = effect.val.stake]
      [] effect.kind = "seat" ->
            [hand EXCEPT !.seats = <<effect.val>> \o @]
      [] effect.kind = "action" ->
            [hand EXCEPT !.actions = <<effect.val>> \o @]
      [] OTHER -> hand

\* a plausible slip: a header starts the buffer afresh
apply_header_restarts(effect, hand) ==
    CASE effect.kind = "header" ->
            [Hand_default EXCEPT !.game = effect.val.game,
                                 !.stake = effect.val.stake]
      [] effect.kind = "seat" ->
            [hand EXCEPT !.seats = Append(@, effect.val)]
      [] effect.kind = "action" ->
            [hand EXCEPT !.actions = Append(@, effect.val)]
      [] OTHER -> hand

\* The Some arms' assignments to current_hand.
apply(effect, hand) ==
    CASE effect.kind = "header" ->
            [hand EXCEPT !.game = effect.val.game, !.stake = effect.val.stake]
      [] effect.kind = "seat" ->
            [hand EXCEPT !.seats = Append(@, effect.val)]
      [] effect.kind = "action" ->
            [hand EXCEPT !.actions = Append(@, effect.val)]
      [] OTHER -> hand

\* a plausible slip: the seat count is not tested
at_boundary_blank_only(blank, hand) == blank

\* a plausible slip: the blank test is left out
at_boundary_seats_only(blank, hand) == Len(hand.seats) # 0

\* line.trim().len() == 0 && current_hand.seats.len() != 0
at_boundary(blank, hand) == blank /\ Len(hand.seats) # 0

\* a plausible slip: the buffer is not reset after it is pushed
loop_body_no_reset(effect, blank, hand, out) ==
    IF effect.kind # "none" THEN <<apply(effect, hand), out>>
    ELSE IF at_boundary(blank, hand) THEN <<hand, Append(out, hand)>>
    ELSE <<hand, out>>

\* a plausible slip: a blank line always starts the buffer afresh
loop_body_blank_resets(effect, blank, hand, out) ==
    IF effect.kind # "none" THEN <<apply(effect, hand), out>>
    ELSE IF at_boundary(blank, hand) THEN <<Hand_default, Append(out, hand)>>
    ELSE IF blank THEN <<Hand_default, out>>
    ELSE <<hand, out>>

\* One pass of the loop body that does not panic: <<current_hand, hands>>
\* after it.  A matching arm ends the pass with continue; only a line that
\* no arm matched reaches the boundary test.
loop_body(effect, blank, hand, out) ==
    IF effect.kind # "none" THEN <<apply(effect, hand), out>>
    ELSE IF at_boundary(blank, hand) THEN <<Hand_default, Append(out, hand)>>
    ELSE <<hand, out>>

\* a plausible slip: the flush after the loop is missing
end_of_input_no_flush(hand, out) == out

\* a plausible slip: every buffer that is not the default is flushed
end_of_input_any(hand, out) ==
    IF hand # Hand_default THEN Append(out, hand) ELSE out

\* The code after the loop: the value parse returns.
end_of_input(hand, out) ==
    IF Len(hand.seats) # 0 THEN Append(out, hand) ELSE out

Init ==
    /\ family \in DOMAIN Families
    /\ consumed = <<>>
    /\ current_hand = Hand_default
    /\ hands = <<>>
    /\ status = "running"
    /\ failure = NoFailure
    /\ text = <<>>
    /\ parsed = Pending

\* The for loop takes the next line of the file and runs the loop body.
ProcessLine ==
    /\ status = "running"
    /\ Len(consumed) < Families[family].max
    /\ \E row \in ClassifiedRows :
          /\ row.name \in Families[family].lines
          /\ consumed' = Append(consumed, row.name)
          /\ IF row.effect.kind = "panic"
             THEN /\ status' = "panicked"
                  /\ failure' = [error |-> row.effect.val]
                  /\ UNCHANGED <<current_hand, hands>>
             ELSE LET after == loop_body(row.effect, row.blank,
                                         current_hand, hands)
                  IN  /\ current_hand' = after[1]
                      /\ hands' = after[2]
                      /\ UNCHANGED <<status, failure>>
    /\ UNCHANGED <<family, text, parsed>>

\* The file has no further line: the loop ends and parse returns.
EndOfInput ==
    /\ status = "running"
    /\ hands' = end_of_input(current_hand, hands)
    /\ status' = "done"
    /\ UNCHANGED <<family, consumed, current_hand, failure, text, parsed>>

Next == ProcessLine \/ EndOfInput

Spec == Init /\ [][Next]_vars

(***************************************************************************)
(* Amount::from_str on its own                                             *)
(***************************************************************************)

InitAmount ==
    /\ family = "any"
    /\ consumed = <<>>
    /\ current_hand = Hand_default
    /\ hands = <<>>
    /\ status = "running"
    /\ failure = NoFailure
    /\ text \in AmountTexts
    /\ parsed = Pending

ParseAmount ==
    /\ parsed = Pending
    /\ parsed' = Amount_from_str(text)
    /\ UNCHANGED <<family, consumed, current_hand, hands, status, failure, text>>

NextAmount == ParseAmount

SpecAmount == InitAmount /\ [][NextAmount]_vars

(***************************************************************************)
(* Vocabulary of the properties                                            *)
(***************************************************************************)

\* the loop body has just taken line n
Took(n) == consumed' = Append(consumed, n)

LastLine == consumed[Len(consumed)]

IsHeaderLine(n) == Classified(n).effect.kind = "header"

IsSeatLine(n) == Classified(n).effect.kind = "seat"

IsActionLine(n) == Classified(n).effect.kind = "action"

IsBlankLine(n) == Classified(n).blank

\* the seats (kind = "seat") or the actions (kind = "action") that the
\* lines denote, in the order of the lines
RECURSIVE EffectsOf(_, _)
EffectsOf(lines, kind) ==
    IF lines = <<>> THEN <<>>
    ELSE LET e == Classified(lines[1]).effect
         IN  (IF e.kind = kind THEN <<e.val>> ELSE <<>>)
                 \o EffectsOf(Tail(lines), kind)

\* the seats or the actions of a sequence of hands, concatenated
RECURSIVE Concat(_, _)
Concat(hs, field) ==
    IF hs = <<>> THEN <<>> ELSE hs[1][field] \o Concat(Tail(hs), field)

\* the segments of a sequence of lines between its blank lines
RECURSIVE SplitAtBlank(_)
SplitAtBlank(lines) ==
    IF \A i \in 1..Len(lines) : ~IsBlankLine(lines[i]) THEN <<lines>>
    ELSE LET i == CHOOSE j \in 1..Len(lines) :
                      /\ IsBlankLine(lines[j])
                      /\ \A k \in 1..(j - 1) : ~IsBlankLine(lines[k])
         IN  <<SubSeq(lines, 1, i - 1)>>
                 \o SplitAtBlank(SubSeq(lines, i + 1, Len(lines)))

\* a line of the shape of a hand header, whether begin_re matches it or not
IsStageLine(n) == HasPrefixAt(Catalogue[n], 1, <<"S","t","a","g","e"," ","#">>)

\* a hand block: a header line, at least one seat line, then action lines
WellFormedBlock(b) ==
    /\ Len(b) >= 2
    /\ IsStageLine(b[1])
    /\ \E s \in 2..Len(b) :
          /\ \A i \in 2..s : IsSeatLine(b[i])
          /\ \A i \in (s + 1)..Len(b) : IsActionLine(b[i])

\* hand blocks with exactly one blank line between consecutive blocks
WellFormedInput(lines) ==
    \A i \in DOMAIN SplitAtBlank(lines) : WellFormedBlock(SplitAtBlank(lines)[i])

(***************************************************************************)
(* Hand boundaries                                                         *)
(***************************************************************************)

\* C1: for an input of k well-formed hand blocks separated by exactly one
\* blank line, parse returns exactly k Hands, and the i-th Hand holds
\* exactly the seats and the actions of the lines of the i-th block.
C1_OneHandPerBlock ==
    (status = "done" /\ WellFormedInput(consumed)) =>
        LET blocks == SplitAtBlank(consumed)
        IN  /\ Len(hands) = Len(blocks)
            /\ \A i \in DOMAIN blocks :
                  /\ hands[i].seats = EffectsOf(blocks[i], "seat")
                  /\ hands[i].actions = EffectsOf(blocks[i], "action")

\* two blocks, the first with an action and the second with none, have
\* been parsed into two hands
C1_Witness ==
    /\ status = "done"
    /\ WellFormedInput(consumed)
    /\ Len(SplitAtBlank(consumed)) = 2
    /\ Len(hands) = 2
    /\ hands[1].actions # <<>>
    /\ hands[2].seats # <<>>
    /\ hands[2].actions = <<>>

\* C2: when the input ends while the buffer holds at least one seat (no
\* trailing blank line), the buffer is the last Hand of the output.
C2_TrailingHandFlushed ==
    (status = "done" /\ Len(current_hand.seats) >= 1) =>
        /\ Len(hands) >= 1
        /\ hands[Len(hands)] = current_hand

\* the input ended right after an action line of a hand that has a seat
C2_Witness ==
    /\ status = "done"
    /\ consumed # <<>>
    /\ IsActionLine(LastLine)
    /\ Len(current_hand.seats) >= 1
    /\ hands[Len(hands)] = current_hand

\* C3 as stated: at end of input every buffer that has received a header
\* update, a seat or an action since its last reset is appended to the
\* output.  (Such a buffer differs from Hand::default(): no catalogue
\* header denotes the default game and stake.)
C3_AnyNonEmptyBufferFlushed ==
    (status = "done" /\ current_hand # Hand_default) =>
        /\ Len(hands) >= 1
        /\ hands[Len(hands)] = current_hand

\* C3 as amended: at end of input the buffer is appended to the output if
\* and only if it holds at least one seat; a buffer that has received only
\* header updates or actions is discarded with them.
C3_FlushedIffSeated ==
    [][ (status = "running" /\ status' = "done") =>
            hands' = IF Len(current_hand.seats) >= 1
                     THEN hands \o <<current_hand>>
                     ELSE hands ]_vars

\* the input ended on a buffer with actions and no seat, which was dropped
C3_Witness ==
    /\ status = "done"
    /\ current_hand.seats = <<>>
    /\ current_hand.actions # <<>>
    /\ hands = <<>>

\* C4: a whitespace-only line finalizes the buffer if and only if the
\* buffer holds at least one seat; blank and unrecognized lines before the
\* first seat of a hand change nothing; and every Hand of the output has
\* at least one seat at every point of the run.
C4_NoEmptyHand ==
    [][ /\ \A n \in LineNames :
              (Took(n) /\ IsBlankLine(n)) =>
                  IF Len(current_hand.seats) >= 1
                  THEN hands' = hands \o <<current_hand>>
                  ELSE hands' = hands /\ current_hand' = current_hand
        /\ \A n \in LineNames :
              (Took(n) /\ Classified(n).effect.kind = "none"
                       /\ current_hand.seats = <<>>) =>
                  hands' = hands /\ current_hand' = current_hand
        /\ \A i \in DOMAIN hands' : Len(hands'[i].seats) >= 1 ]_vars

\* a leading blank line was ignored and a later one finalized a hand
C4_Witness ==
    /\ Len(consumed) >= 3
    /\ IsBlankLine(consumed[1])
    /\ IsBlankLine(LastLine)
    /\ Len(hands) = 1
    /\ status = "running"

\* C5: the seats and the actions of the hands are those of the input lines
\* in input order: the output hands followed by the buffer (which at the
\* end of input is the last output hand when it has a seat) hold the seats
\* and actions of the lines read, each once, in the order read.
C5_OrderPreserved ==
    (status # "panicked") =>
        LET all == IF status = "done" /\ Len(current_hand.seats) >= 1
                   THEN hands
                   ELSE hands \o <<current_hand>>
        IN  /\ Concat(all, "actions") = EffectsOf(consumed, "action")
            /\ Concat(all, "seats") = EffectsOf(consumed, "seat")

\* the lines Bet, Call, Flop, Check, Raise of one hand came out in order
C5_Witness ==
    /\ status = "done"
    /\ Len(hands) = 1
    /\ Len(hands[1].actions) = 5
    /\ [i \in 1..5 |-> hands[1].actions[i].tag]
           = <<"Bet", "Call", "Flop", "Check", "Raise">>

(***************************************************************************)
(* Line classification                                                     *)
(***************************************************************************)

\* The order of the matchers as the specification lists it: header, seat,
\* bet, call, check, collect, fold, muck, post, raise, show, pocket cards,
\* flop, turn, river.
ClaimedOrder ==
    << "begin", "seat", "bet", "call", "check", "collect", "fold", "muck",
       "post", "raise", "show", "preflop", "flop", "turn", "river" >>

\* the positions in ClaimedOrder of the matchers whose pattern matches
MatchingAt(line) ==
    {k \in DOMAIN ClaimedOrder : IsMatch(Pattern(ClaimedOrder[k]), line)}

\* what first-match-wins asks of a line: the effect of the arm of the first
\* matcher in ClaimedOrder whose pattern matches, none if none matches
FirstMatchEffect(line) ==
    IF MatchingAt(line) = {} THEN Effect("none", <<>>)
    ELSE LET first == CHOOSE k \in MatchingAt(line) :
                          \A j \in MatchingAt(line) : k <= j
         IN  Arm(ClaimedOrder[first], line)[1]

\* tabulated once for the catalogue
ExpectedRows ==
    { [name     |-> n,
       matching |-> MatchingAt(Catalogue[n]),
       effect   |-> FirstMatchEffect(Catalogue[n])] : n \in LineNames }

Expected(n) == CHOOSE row \in ExpectedRows : row.name = n

\* C6: a line that matches a pattern but whose extracted field does not
\* parse makes the run fail, and the failure reports the 1-based number of
\* that input line; the run neither continues nor skips the line.
C6_FailureReportsLine ==
    (consumed # <<>> /\ Expected(LastLine).effect.kind = "panic") =>
        /\ status = "panicked"
        /\ "line" \in DOMAIN failure
        /\ failure["line"] = Len(consumed)

\* C7: a Hand that has been appended to the output is never changed again:
\* the output only grows, by one Hand at its end; and right after a blank
\* line has finalized the buffer, the buffer is a fresh default Hand.
C7_FinalizedHandsFrozen ==
    [][ /\ Len(hands') \in {Len(hands), Len(hands) + 1}
        /\ SubSeq(hands', 1, Len(hands)) = hands
        /\ (status' = "running" /\ Len(hands') = Len(hands) + 1) =>
               /\ current_hand' = Hand_default
               /\ current_hand'.seats = <<>>
               /\ current_hand'.actions = <<>>
               /\ current_hand'.stake = [integer |-> UInt(0), fraction |-> 0]
               /\ current_hand'.game.tag = "Unknown" ]_vars

\* after a finalization the buffer has taken a header, a seat and an action
\* of the next hand, and the finalized Hand is still in the output
C7_Witness ==
    /\ status = "running"
    /\ Len(hands) = 1
    /\ current_hand.seats # <<>>
    /\ current_hand.actions # <<>>
    /\ current_hand.game.tag = "NoLimitHoldem"

\* C8: first-match-wins.  The effect of a line is the effect of the first
\* matcher, in the listed order, whose pattern matches it, and only that:
\* the line updates the header, or appends one seat, or appends one action
\* (or panics in that matcher's arm), and does nothing else to the buffer.
C8_FirstMatchWins ==
    [][ \A n \in LineNames : Took(n) =>
          LET e == Expected(n).effect
          IN  CASE e.kind = "panic" ->
                      status' = "panicked" /\ failure' = [error |-> e.val]
                [] e.kind = "header" ->
                      /\ current_hand'.game = e.val.game
                      /\ current_hand'.stake = e.val.stake
                      /\ current_hand'.seats = current_hand.seats
                      /\ current_hand'.actions = current_hand.actions
                      /\ hands' = hands /\ status' = "running"
                [] e.kind = "seat" ->
                      /\ current_hand'.seats = current_hand.seats \o <<e.val>>
                      /\ current_hand'.game = current_hand.game
                      /\ current_hand'.stake = current_hand.stake
                      /\ current_hand'.actions = current_hand.actions
                      /\ hands' = hands /\ status' = "running"
                [] e.kind = "action" ->
                      /\ current_hand'.actions = current_hand.actions \o <<e.val>>
                      /\ current_hand'.game = current_hand.game
                      /\ current_hand'.stake = current_hand.stake
                      /\ current_hand'.seats = current_hand.seats
                      /\ hands' = hands /\ status' = "running"
                [] e.kind = "none" ->
                      /\ current_hand' \in {current_hand, Hand_default}
                      /\ status' = "running" ]_vars

\* lines that match several patterns have been read: one that matches the
\* seat and the bet pattern gave a seat and no action, and one that matches
\* the check and the fold pattern gave one action
C8_Witness ==
    /\ status = "running"
    /\ Len(consumed) = 2
    /\ \A i \in 1..2 : Cardinality(Expected(consumed[i]).matching) >= 2
    /\ Len(current_hand.seats) = 1
    /\ Len(current_hand.actions) = 1

\* C9: a non-blank line that matches no pattern is a no-op: no error, and
\* the buffer and the output are unchanged.
C9_UnmatchedLineIsNoOp ==
    [][ \A n \in LineNames :
          (Took(n) /\ Expected(n).matching = {} /\ ~IsBlank(Catalogue[n])) =>
              /\ status' = "running"
              /\ failure' = failure
              /\ current_hand' = current_hand
              /\ hands' = hands ]_vars

\* an unmatched non-blank line was read while the buffer held a seat, and
\* the buffer still holds it
C9_Witness ==
    /\ status = "running"
    /\ Len(consumed) = 2
    /\ Expected(LastLine).matching = {}
    /\ ~IsBlank(Catalogue[LastLine])
    /\ Len(current_hand.seats) = 1
    /\ hands = <<>>

(***************************************************************************)
(* Amounts                                                                 *)
(***************************************************************************)

\* s with "$" and "," removed
Normalize(s) == Remove(Remove(s, "$"), ",")

AllDigits(s) == s # <<>> /\ \A i \in DOMAIN s : IsDigit(s[i])

\* digits with "," as thousands separator: after the first group of one to
\* three digits, groups of a comma and exactly three digits
RECURSIVE Grouped(_)
Grouped(s) ==
    \/ AllDigits(s)
    \/ /\ Len(s) >= 5
       /\ s[Len(s) - 3] = ","
       /\ AllDigits(SubSeq(s, Len(s) - 2, Len(s)))
       /\ Len(s) - 4 <= 3 \/ s[Len(s) - 7] = ","
       /\ Grouped(SubSeq(s, 1, Len(s) - 4))

\* a well-formed amount text: an optional leading "$", then digits (with
\* optional thousands separators), then optionally "." and digits
WellFormedAmount(s) ==
    LET body == IF s # <<>> /\ s[1] = "$" THEN Tail(s) ELSE s
        dot  == Find(body, ".")
    IN  IF dot = 0 THEN Grouped(body)
        ELSE /\ Grouped(SubSeq(body, 1, dot - 1))
             /\ AllDigits(SubSeq(body, dot + 1, Len(body)))

\* the outcome of Amount::from_str on every amount text, tabulated once
AmountRows ==
    { [input      |-> s,
       wellformed |-> WellFormedAmount(s),
       outcome    |-> Amount_from_str(s)] : s \in AmountTexts }

\* C10: the Amount parsed from a well-formed text s determines
\* normalize(s): no other well-formed text with a different normal form
\* parses to the same Amount (so that some format gives
\* format(parse(s)) = normalize(s), fraction digits included).
C10_AmountRoundTrip ==
    (parsed.ok /\ WellFormedAmount(text)) =>
        \A row \in AmountRows :
            (row.wellformed /\ row.outcome.ok /\ row.outcome.val = parsed.val)
                => Normalize(row.input) = Normalize(text)

\* s after trimming whitespace, stripping one optional leading "$" and
\* every ","
Stripped(s) ==
    Remove(IF Trim(s) # <<>> /\ Trim(s)[1] = "$" THEN Tail(Trim(s)) ELSE Trim(s),
           ",")

\* the text before the first "." (all of it when there is none)
IntegerPart(s) ==
    IF Find(s, ".") = 0 THEN s ELSE SubSeq(s, 1, Find(s, ".") - 1)

\* the text after the first "."
FractionPart(s) ==
    IF Find(s, ".") = 0 THEN <<>> ELSE SubSeq(s, Find(s, ".") + 1, Len(s))

\* of the form digits or digits.digits
PlainAmount(s) ==
    /\ AllDigits(IntegerPart(s))
    /\ Find(s, ".") # 0 => AllDigits(FractionPart(s))

RECURSIVE StripZeros(_)
StripZeros(d) ==
    IF Len(d) > 1 /\ d[1] = "0" THEN StripZeros(Tail(d)) ELSE d

\* digit strings of equal length compared as numbers
RECURSIVE DigitsGreater(_, _)
DigitsGreater(a, b) ==
    /\ a # <<>>
    /\ \/ DigitVal(a[1]) > DigitVal(b[1])
       \/ a[1] = b[1] /\ DigitsGreater(Tail(a), Tail(b))

\* the number written by the digits d is greater than the one written by max
Exceeds(d, max) ==
    \/ Len(StripZeros(d)) > Len(max)
    \/ Len(StripZeros(d)) = Len(max) /\ DigitsGreater(StripZeros(d), max)

\* u32::MAX and u8::MAX
MaxU32Digits == <<"4","2","9","4","9","6","7","2","9","5">>

MaxU8Digits == <<"2","5","5">>

\* a plain amount whose integer part or fraction part does not fit its field
Overflows(s) ==
    /\ PlainAmount(s)
    /\ \/ Exceeds(IntegerPart(s), MaxU32Digits)
       \/ Find(s, ".") # 0 /\ Exceeds(FractionPart(s), MaxU8Digits)

\* C11: Amount parsing fails, with an error and never with a value, for
\* every text that after trimming whitespace and stripping one optional
\* leading "$" and the "," separators is not of the form digits or
\* digits.digits, and for every text whose integer part overflows 32 bits
\* or whose fraction part overflows 8 bits.
C11_IllFormedAmountFails ==
    (parsed # Pending
        /\ (~PlainAmount(Stripped(text)) \/ Overflows(Stripped(text))))
        => ~parsed.ok

\* the overflow half of C11 on its own: an overflowing part is an error
C11_OverflowFails ==
    (parsed # Pending /\ Overflows(Stripped(text))) => ~parsed.ok


(***************************************************************************)
(* Hand headers                                                            *)
(***************************************************************************)

\* The parts of a line of the shape "Stage #N: <game-label> $<stake> ...":
\* the label stands between ": " and " $", the stake text runs from the "$"
\* to the next space (or the end of the line).
HeaderLabel(line) ==
    SubSeq(line, Find(line, ":") + 2, Find(line, "$") - 2)

HeaderStakeText(line) ==
    LET rest == SubSeq(line, Find(line, "$") + 1, Len(line))
    IN  IF Find(rest, " ") = 0 THEN rest
        ELSE SubSeq(rest, 1, Find(rest, " ") - 1)

\* what each header-shaped line of the catalogue announces, tabulated once
AnnouncedRows ==
    { [name       |-> n,
       game       |-> Game_from(HeaderLabel(Catalogue[n])),
       wellformed |-> WellFormedAmount(HeaderStakeText(Catalogue[n])),
       stake      |-> Amount_from_str(HeaderStakeText(Catalogue[n]))] :
      n \in {m \in LineNames : IsStageLine(m)} }

\* C12: processing a header line "Stage #N: <game-label> $<stake> ..."
\* whose stake text is a well-formed amount sets the buffer's game to the
\* classification of the label and the buffer's stake to the Amount that
\* the whole stake text denotes.
C12_HeaderSetsGameAndStake ==
    [][ \A row \in AnnouncedRows :
          (Took(row.name) /\ row.wellformed) =>
              /\ current_hand'.game = row.game
              /\ current_hand'.stake = row.stake.val ]_vars


\* a hand block whose header line the header pattern recognizes
HeaderBlock(b) == WellFormedBlock(b) /\ IsHeaderLine(b[1])

\* the positions at which lines splits into two such blocks with nothing
\* between them (the second block starts at the position)
SecondBlockAt(lines) ==
    { k \in 2..Len(lines) :
        /\ HeaderBlock(SubSeq(lines, 1, k - 1))
        /\ HeaderBlock(SubSeq(lines, k, Len(lines))) }

\* C13: a hand header line never finalizes or resets the buffer: it leaves
\* the buffer's seats and actions and the output unchanged, also when the
\* buffer holds seats.  Hence two hand blocks with no blank line between
\* them come out as one single Hand with the seats and actions of both
\* blocks and the game and stake of the later header.
C13_HeaderKeepsBuffer ==
    [][ /\ \A n \in LineNames :
              (Took(n) /\ IsStageLine(n)) =>
                  /\ current_hand'.seats = current_hand.seats
                  /\ current_hand'.actions = current_hand.actions
                  /\ hands' = hands
        /\ \A k \in SecondBlockAt(consumed) :
              (status = "running" /\ status' = "done") =>
                  hands' = << [ game    |-> Classified(consumed[k]).effect.val.game,
                                stake   |-> Classified(consumed[k]).effect.val.stake,
                                seats   |-> EffectsOf(consumed, "seat"),
                                actions |-> EffectsOf(consumed, "action") ] >>
      ]_vars

\* two blocks with different headers and no blank line between them have
\* come out as one Hand with both blocks' seats and actions under the
\* second header's game
C13_Witness ==
    /\ status = "done"
    /\ SecondBlockAt(consumed) # {}
    /\ consumed[1] = "hdr"
    /\ Len(hands) = 1
    /\ hands[1].game.tag = "NoLimitHoldemHeadsUp"
    /\ Len(hands[1].seats) = 2
    /\ Len(hands[1].actions) = 2


(***************************************************************************)
(* Conservation of seats and actions                                       *)
(***************************************************************************)

\* The lines read after the last finalization: a blank line finalizes when
\* a seat line has been read since the previous finalization.  pending are
\* the lines since then, seated whether a seat line is among them.
RECURSIVE AfterLastFinalization(_, _, _)
AfterLastFinalization(lines, pending, seated) ==
    IF lines = <<>> THEN pending
    ELSE IF IsBlankLine(lines[1]) /\ seated
    THEN AfterLastFinalization(Tail(lines), <<>>, FALSE)
    ELSE AfterLastFinalization(Tail(lines), Append(pending, lines[1]),
                               seated \/ IsSeatLine(lines[1]))

\* the actions the claim allows to be missing from the output: those read
\* after the last finalization, when no seat line was read after it
MissingActions(lines) ==
    IF EffectsOf(AfterLastFinalization(lines, <<>>, FALSE), "seat") = <<>>
    THEN EffectsOf(AfterLastFinalization(lines, <<>>, FALSE), "action")
    ELSE <<>>

\* C14: when parse completes, the seats of the output Hands, concatenated
\* in output order, are the seat lines of the input in input order, and
\* the actions of the output Hands, concatenated, are a prefix of the
\* action lines of the input in input order; what is missing are exactly
\* the actions read after the last finalization with no seat line after it.
C14_SeatsKeptActionsPrefix ==
    (status = "done") =>
        /\ Concat(hands, "seats") = EffectsOf(consumed, "seat")
        /\ Concat(hands, "actions") \o MissingActions(consumed)
               = EffectsOf(consumed, "action")

\* parse completed with a Hand in the output that holds an action read
\* before its first seat, and with a later action missing from the output
C14_Witness ==
    /\ status = "done"
    /\ Len(hands) = 1
    /\ IsActionLine(consumed[1])
    /\ hands[1].actions # <<>>
    /\ MissingActions(consumed) # <<>>


=============================================================================
